---- MODULE Spec2Model ----
(***************************************************************************)
(* Model of the CIMIS download / merge pipeline:                           *)
(*   src/download/station_data.py   (fetch_cimis_data, post_process, main) *)
(*   src/process_data/merge_data.py (remove_duplicate, process_dataframe)  *)
(*                                                                         *)
(* Representation of Python values                                         *)
(*   str            a sequence of one-character strings, <<"0","1">>       *)
(*   column / key   a name split at '-': 'hly-asce-eto' is                 *)
(*                  <<"hly","asce","eto">>, 'Date' is <<"Date">>           *)
(*   Optional[x]    <<>> for None, <<x>> for a present value               *)
(*   float          [nan |-> TRUE] or [nan |-> FALSE, milli |-> n]         *)
(*   datetime.date  its ordinal, an integer                                *)
(*   DataFrame      a sequence of rows, a row a function column -> cell    *)
(***************************************************************************)
EXTENDS Integers, Sequences, FiniteSets, TLC

VARIABLES
    chunkDays,       \* CHUNK_DAYS
    start_date,      \* main: start_date
    end_date,        \* main: end_date
    stations_info,   \* main: stations_info, the roster read from the CSV
    provider,        \* the responses the remote service may give
    pc,              \* main: position ("chunks", "done")
    stationIdx,      \* main: index of station_id in station_ids
    current_start,   \* main: current_start
    station_data,    \* main: station_data
    requests,        \* the calls of fetch_cimis_data made so far
    files,           \* Data/cimis_hourly_data: station id -> saved DataFrame
    download_files,  \* remove_duplicate: download_files
    challenge_files, \* remove_duplicate: challenge_files
    todo,            \* remove_duplicate: rest of download_files + challenge_files
    outDir,          \* OUT_DIR: basename -> file
    filenames,       \* process_dataframe: the files still to be processed
    passes,          \* the calls of process_dataframe on OUT_DIR so far
    mpc              \* merge_data.main: position

mainVars == <<chunkDays, start_date, end_date, stations_info, provider, pc,
              stationIdx,
              current_start, station_data, requests, files>>
mergeVars == <<download_files, challenge_files, todo, outDir, filenames, passes,
               mpc>>
vars == <<mainVars, mergeVars>>

(***************************************************************************)
(* Bounds                                                                  *)
(***************************************************************************)
MaxDay == 4
MaxChunkDays == 3
MaxPasses == 2
MaxInvalidChunkDays == 1

(***************************************************************************)
(* Python str helpers                                                      *)
(***************************************************************************)
None == <<>>
Some(x) == <<x>>

RECURSIVE LStrip(_)
LStrip(s) == IF s # <<>> /\ Head(s) = " " THEN LStrip(Tail(s)) ELSE s

RECURSIVE RStrip(_)
RStrip(s) ==
    IF s # <<>> /\ s[Len(s)] = " " THEN RStrip(SubSeq(s, 1, Len(s) - 1)) ELSE s

Strip(s) == RStrip(LStrip(s))

DigitVal ==
    [c \in {"0", "1", "2", "3", "4", "5", "6", "7", "8", "9"} |->
        CASE c = "0" -> 0 [] c = "1" -> 1 [] c = "2" -> 2 [] c = "3" -> 3
          [] c = "4" -> 4 [] c = "5" -> 5 [] c = "6" -> 6 [] c = "7" -> 7
          [] c = "8" -> 8 [] c = "9" -> 9]

IsDigit(c) == c \in DOMAIN DigitVal

RECURSIVE DigitsToInt(_)
DigitsToInt(s) ==
    IF s = <<>> THEN 0
    ELSE 10 * DigitsToInt(SubSeq(s, 1, Len(s) - 1)) + DigitVal[s[Len(s)]]

RECURSIVE Pow10(_)
Pow10(n) == IF n <= 0 THEN 1 ELSE 10 * Pow10(n - 1)

NaN == [nan |-> TRUE]
Float(milli) == [nan |-> FALSE, milli |-> milli]

\* float(value): surrounding whitespace is ignored, then
\* [sign] digits ["." [digits]] or [sign] "." digits; anything else is a
\* ValueError, rendered here as <<>>.  The result is kept in thousandths.
ParseFloat(value) ==
    LET t == Strip(value)
        signed == t # <<>> /\ Head(t) \in {"-", "+"}
        body == IF signed THEN Tail(t) ELSE t
        dots == {i \in 1..Len(body) : body[i] = "."}
        wellFormed ==
            /\ \A i \in 1..Len(body) : IsDigit(body[i]) \/ body[i] = "."
            /\ Cardinality(dots) <= 1
            /\ \E i \in 1..Len(body) : IsDigit(body[i])
        dot == IF dots = {} THEN Len(body) + 1 ELSE CHOOSE i \in dots : TRUE
        nfrac == IF dots = {} THEN 0 ELSE Len(body) - dot
        mant == DigitsToInt(SelectSeq(body, IsDigit))
        milli == (mant * 1000) \div Pow10(nfrac)
    IN  IF ~wellFormed THEN <<>>
        ELSE IF signed /\ Head(t) = "-" THEN <<Float(0 - milli)>>
        ELSE <<Float(milli)>>

(***************************************************************************)
(* Configuration                                                           *)
(***************************************************************************)
DATA_ITEMS ==
    << <<"hly", "asce", "eto">>,
       <<"hly", "precip">>,
       <<"hly", "sol", "rad">>,
       <<"hly", "vap", "pres">>,
       <<"hly", "air", "tmp">>,
       <<"hly", "rel", "hum">>,
       <<"hly", "dew", "pnt">>,
       <<"hly", "wind", "spd">>,
       <<"hly", "wind", "dir">>,
       <<"hly", "soil", "tmp">> >>

Items == {DATA_ITEMS[i] : i \in 1..Len(DATA_ITEMS)}

\* str.capitalize() on the segments of the item codes
Capitalize(x) ==
    CASE x = "hly" -> "Hly" [] x = "asce" -> "Asce" [] x = "eto" -> "Eto"
      [] x = "precip" -> "Precip" [] x = "sol" -> "Sol" [] x = "rad" -> "Rad"
      [] x = "vap" -> "Vap" [] x = "pres" -> "Pres" [] x = "air" -> "Air"
      [] x = "tmp" -> "Tmp" [] x = "rel" -> "Rel" [] x = "hum" -> "Hum"
      [] x = "dew" -> "Dew" [] x = "pnt" -> "Pnt" [] x = "wind" -> "Wind"
      [] x = "spd" -> "Spd" [] x = "dir" -> "Dir" [] x = "soil" -> "Soil"
      [] OTHER -> x

\* "".join(x.capitalize() for x in item.split('-')): the capitalized
\* segments, in order
JsonKey(item) == [i \in 1..Len(item) |-> Capitalize(item[i])]

\* item + '-qc'
QcCol(item) == Append(item, "qc")

\* code points of the characters that occur in Date and Hour strings
CharCode(c) ==
    CASE c = " " -> 32 [] c = "-" -> 45 [] c = "/" -> 47 [] c = ":" -> 58
      [] OTHER -> 48 + DigitVal[c]

\* Python's str < str: lexicographic by code point, a proper prefix first
RECURSIVE StrLess(_, _)
StrLess(a, b) ==
    IF b = <<>> THEN FALSE
    ELSE IF a = <<>> THEN TRUE
    ELSE IF Head(a) # Head(b) THEN CharCode(Head(a)) < CharCode(Head(b))
    ELSE StrLess(Tail(a), Tail(b))

\* int(s) for a string of digits, str(n) for a small natural number
ParseInt(s) == DigitsToInt(Strip(s))
DigitChar(d) == CHOOSE c \in DOMAIN DigitVal : DigitVal[c] = d
RECURSIVE IntToStr(_)
IntToStr(n) ==
    IF n < 10 THEN <<DigitChar(n)>>
    ELSE Append(IntToStr(n \div 10), DigitChar(n % 10))

\* dict.get(key)
Get(d, key) == IF key \in DOMAIN d THEN Some(d[key]) ELSE None

(***************************************************************************)
(* fetch_cimis_data                                                        *)
(***************************************************************************)
\* the strings that mark a missing measurement
Sentinels == {<<"M">>, <<"-", "-", "-">>, <<"#", "#", "#", "#">>}

\* a value that float() rejects stored as 0.0
ExtractValueZeroDefault(record, item) ==
    LET json_key == JsonKey(item) IN
    IF json_key \in DOMAIN record
    THEN LET value == Get(record[json_key], "Value") IN
         IF value # None /\ value[1] # <<>> /\ Strip(value[1]) \notin Sentinels
         THEN LET f == ParseFloat(value[1]) IN
              IF f = <<>> THEN Float(0) ELSE f[1]
         ELSE NaN
    ELSE NaN

\* "1. Extract Value": row[item]
ExtractValue(record, item) ==
    LET json_key == JsonKey(item) IN
    IF json_key \in DOMAIN record
    THEN LET value == Get(record[json_key], "Value") IN
         IF value # None /\ value[1] # <<>> /\ Strip(value[1]) \notin Sentinels
         THEN LET f == ParseFloat(value[1]) IN
              IF f = <<>> THEN NaN ELSE f[1]
         ELSE NaN
    ELSE NaN

\* the QC code blanked whenever the value is missing
ExtractQcOfPresentValue(record, item) ==
    LET json_key == JsonKey(item) IN
    IF json_key \in DOMAIN record
    THEN LET qc_value == Get(record[json_key], "Qc") IN
         IF qc_value # None /\ ExtractValue(record, item) # NaN
         THEN Strip(qc_value[1])
         ELSE <<>>
    ELSE <<>>

\* "2. Extract QC": row[item + '-qc']
ExtractQc(record, item) ==
    LET json_key == JsonKey(item) IN
    IF json_key \in DOMAIN record
    THEN LET qc_value == Get(record[json_key], "Qc") IN
         IF qc_value # None THEN Strip(qc_value[1]) ELSE <<>>
    ELSE <<>>

RowColumns ==
    {<<"Date">>, <<"Hour">>, <<"StationId">>}
        \cup Items \cup {QcCol(item) : item \in Items}

\* the row built from one record of the response
RowOf(record) ==
    [c \in RowColumns |->
        CASE c = <<"Date">> -> Get(record, <<"Date">>)
          [] c = <<"Hour">> -> Get(record, <<"Hour">>)
          [] c = <<"StationId">> -> Get(record, <<"Station">>)
          [] c \in Items -> ExtractValue(record, c)
          [] OTHER -> ExtractQc(record, SubSeq(c, 1, Len(c) - 1))]

\* The outcomes of requests.get / raise_for_status / response.json and of
\* the test on the payload's shape:
\*   "http"         raise_for_status raises HTTPError
\*   "request"      requests.get raises a RequestException
\*   "json"         response.json raises JSONDecodeError
\*   "no_data"      the payload has no 'Data' / 'Providers' key
\*   "no_provider"  data['Data']['Providers'] is [] (IndexError)
\*   "ok"           data['Data']['Providers'][0]['Records'] is resp.records
FailureKinds == {"http", "request", "json", "no_data", "no_provider"}

\* the hour codes "0100", "0200", ..., "2400"
HourCodes ==
    {<<a, b, "0", "0">> : a \in {"0", "1", "2"}, b \in DOMAIN DigitVal}
        \ ({<<"0", "0", "0", "0">>}
              \cup {<<"2", b, "0", "0">> : b \in {"5", "6", "7", "8", "9"}})

\* the records of a response with a decoding step that drops the records
\* whose hour code is unknown
fetch_decoding(station_id, resp) ==
    IF resp.kind = "ok" /\ resp.records # <<>>
    THEN LET kept == SelectSeq(resp.records,
                               LAMBDA r : r[<<"Hour">>] \in HourCodes)
         IN  [i \in 1..Len(kept) |-> RowOf(kept[i])]
    ELSE <<>>

fetch_cimis_data(station_id, resp) ==
    IF resp.kind = "ok" /\ resp.records # <<>>
    THEN [i \in 1..Len(resp.records) |-> RowOf(resp.records[i])]
    ELSE <<>>

(***************************************************************************)
(* post_process and the aggregation of one station in main                 *)
(***************************************************************************)
RECURSIVE Concat(_)
Concat(frames) ==
    IF frames = <<>> THEN <<>> ELSE Head(frames) \o Concat(Tail(frames))

\* df_station.merge(stations_info, left_on=StationId.astype(int),
\*                  right_on='Stn Id', how='left').drop(columns=['Stn Id'])
MetaColumns == {<<"Stn Name">>, <<"Latitude">>, <<"Longitude">>}
WithMeta(row, info) ==
    [c \in DOMAIN row \cup MetaColumns |->
        CASE c = <<"Stn Name">> -> info.name
          [] c = <<"Latitude">> -> info.lat
          [] c = <<"Longitude">> -> info.lon
          [] OTHER -> row[c]]
NoInfo == [id |-> 0, name |-> None, lat |-> None, lon |-> None]
MergeRow(row, roster) ==
    LET key == ParseInt(row[<<"StationId">>][1])
        matches == SelectSeq(roster, LAMBDA info : info.id = key)
    IN  IF matches = <<>> THEN <<WithMeta(row, NoInfo)>>
        ELSE [i \in 1..Len(matches) |-> WithMeta(row, matches[i])]
RECURSIVE MergeMeta(_, _)
MergeMeta(rows, roster) ==
    IF rows = <<>> THEN <<>>
    ELSE MergeRow(Head(rows), roster) \o MergeMeta(Tail(rows), roster)

\* the sort keys taken in the other order, by=['Hour', 'Date']
KeyLessHourFirst(r1, r2) ==
    LET h1 == r1[<<"Hour">>][1]
        h2 == r2[<<"Hour">>][1]
    IN  \/ StrLess(h1, h2)
        \/ h1 = h2 /\ StrLess(r1[<<"Date">>][1], r2[<<"Date">>][1])

\* the order of sort_values(by=['Date', 'Hour']) on the string cells
KeyLess(r1, r2) ==
    LET d1 == r1[<<"Date">>][1]
        d2 == r2[<<"Date">>][1]
    IN  \/ StrLess(d1, d2)
        \/ d1 = d2 /\ StrLess(r1[<<"Hour">>][1], r2[<<"Hour">>][1])

\* stable insertion of row behind every row that is not greater
RECURSIVE Insert(_, _)
Insert(sorted, row) ==
    IF sorted = <<>> THEN <<row>>
    ELSE IF KeyLess(row, sorted[Len(sorted)])
         THEN Append(Insert(SubSeq(sorted, 1, Len(sorted) - 1), row),
                     sorted[Len(sorted)])
         ELSE Append(sorted, row)

RECURSIVE SortRows(_)
SortRows(rows) ==
    IF rows = <<>> THEN <<>>
    ELSE Insert(SortRows(SubSeq(rows, 1, Len(rows) - 1)), rows[Len(rows)])

\* df_station.sort_values(by=['Date', 'Hour']).reset_index(drop=True)
sort_values(rows) == SortRows(rows)

RECURSIVE DataQcCols(_)
DataQcCols(items) ==
    IF items = <<>> THEN <<>>
    ELSE <<Head(items), QcCol(Head(items))>> \o DataQcCols(Tail(items))

base_cols ==
    << <<"Date">>, <<"Hour">>, <<"StationId">>, <<"Stn Name">>,
       <<"Latitude">>, <<"Longitude">> >>
final_cols == base_cols \o DataQcCols(DATA_ITEMS)

name2name(c) ==
    CASE c = <<"hly", "asce", "eto">> -> <<"ETo (mm)">>
      [] c = <<"hly", "precip">> -> <<"Precip (mm)">>
      [] c = <<"hly", "sol", "rad">> -> <<"Sol Rad (W/sq.m)">>
      [] c = <<"hly", "vap", "pres">> -> <<"Vap Pres (kPa)">>
      [] c = <<"hly", "air", "tmp">> -> <<"Air Temp (C)">>
      [] c = <<"hly", "rel", "hum">> -> <<"Rel Hum (%)">>
      [] c = <<"hly", "dew", "pnt">> -> <<"Dew Point (C)">>
      [] c = <<"hly", "wind", "spd">> -> <<"Wind Speed (m/s)">>
      [] c = <<"hly", "wind", "dir">> -> <<"Wind Dir (0-360)">>
      [] c = <<"hly", "soil", "tmp">> -> <<"Soil Temp (C)">>
      [] c = <<"hly", "asce", "eto", "qc">> -> <<"eto", "qc">>
      [] c = <<"hly", "precip", "qc">> -> <<"precip", "qc">>
      [] c = <<"hly", "sol", "rad", "qc">> -> <<"solrad", "qc">>
      [] c = <<"hly", "vap", "pres", "qc">> -> <<"vappres", "qc">>
      [] c = <<"hly", "air", "tmp", "qc">> -> <<"airtmp", "qc">>
      [] c = <<"hly", "rel", "hum", "qc">> -> <<"relhum", "qc">>
      [] c = <<"hly", "dew", "pnt", "qc">> -> <<"dewpnt", "qc">>
      [] c = <<"hly", "wind", "spd", "qc">> -> <<"windspd", "qc">>
      [] c = <<"hly", "wind", "dir", "qc">> -> <<"winddir", "qc">>
      [] c = <<"hly", "soil", "tmp", "qc">> -> <<"soiltmp", "qc">>
      [] c = <<"StationId">> -> <<"Stn Id">>
      [] OTHER -> c

\* a DataFrame with its column order: [columns, rows]
post_process(df) ==
    LET kept == SelectSeq(df.columns,
                          LAMBDA c : c \notin {<<"Latitude">>, <<"Longitude">>})
        old(n) == CHOOSE c \in {kept[i] : i \in 1..Len(kept)} : name2name(c) = n
        cols == [i \in 1..Len(kept) |-> name2name(kept[i])]
    IN  [columns |-> cols,
         rows |-> [j \in 1..Len(df.rows) |->
                      [n \in {cols[i] : i \in 1..Len(cols)} |->
                          df.rows[j][old(n)]]]]

\* "2.2 Aggregate and save data for the current station": the frame that
\* to_csv writes
Aggregate(frames, roster) ==
    LET df_station == sort_values(MergeMeta(Concat(frames), roster))
    IN  post_process([columns |-> final_cols,
                      rows |-> [j \in 1..Len(df_station) |->
                                   [c \in {final_cols[i] : i \in 1..Len(final_cols)}
                                       |-> df_station[j][c]]]])

(***************************************************************************)
(* main: the loop over the stations and the date chunks                    *)
(***************************************************************************)
station_ids == [i \in 1..Len(stations_info) |-> stations_info[i].id]

\* the remote service answers a query for station_id: the records of the
\* response carry the station's number as a string
ProviderReply(resp, station_id) ==
    [kind |-> resp.kind,
     records |-> [i \in 1..Len(resp.records) |->
                     resp.records[i] @@ (<<"Station">> :> IntToStr(station_id))]]

\* the window end without "if current_end > end_date: current_end = end_date"
ChunkEndUntruncated(cur) == cur + (chunkDays - 1)

\* current_end = current_start + timedelta(days=CHUNK_DAYS - 1), truncated
\* to end_date
ChunkEnd(cur) ==
    LET current_end == cur + (chunkDays - 1)
    IN  IF current_end > end_date THEN end_date ELSE current_end

\* an empty chunk discarding what the station has collected so far
AppendChunkOrReset(data, df_chunk) ==
    IF df_chunk # <<>> THEN Append(data, df_chunk) ELSE <<>>

\* if not df_chunk.empty: station_data.append(df_chunk)
AppendChunk(data, df_chunk) ==
    IF df_chunk # <<>> THEN Append(data, df_chunk) ELSE data

\* the chunk loop can run without end when CHUNK_DAYS <= 0; the model stops
\* it after as many requests as a tiling of [0, MaxDay] by single days needs
MaxRequests == Len(stations_info) * (MaxDay + 1)

\* one iteration of "while current_start <= end_date"
FetchChunk ==
    /\ pc = "chunks"
    /\ current_start <= end_date
    /\ Len(requests) < MaxRequests
    /\ \E resp \in provider :
        LET station_id == station_ids[stationIdx]
            current_end == ChunkEnd(current_start)
            reply == ProviderReply(resp, station_id)
            df_chunk == fetch_cimis_data(station_id, reply)
        IN  /\ station_data' = AppendChunk(station_data, df_chunk)
            /\ requests' = Append(requests,
                                  [station |-> station_id,
                                   start |-> current_start,
                                   end |-> current_end,
                                   resp |-> reply])
            /\ current_start' = current_end + 1
    /\ UNCHANGED <<chunkDays, start_date, end_date, stations_info, provider,
                   pc, stationIdx, files, mergeVars>>

\* the end of the while loop: "2.2 Aggregate and save", then the next
\* station_id of the for loop
FinishStation ==
    /\ pc = "chunks"
    /\ current_start > end_date
    /\ files' = IF station_data # <<>>
                THEN [s \in DOMAIN files \cup {station_ids[stationIdx]} |->
                         IF s = station_ids[stationIdx]
                         THEN Aggregate(station_data, stations_info)
                         ELSE files[s]]
                ELSE files
    /\ IF stationIdx < Len(station_ids)
       THEN /\ stationIdx' = stationIdx + 1
            /\ current_start' = start_date
            /\ station_data' = <<>>
            /\ pc' = pc
       ELSE /\ pc' = "done"
            /\ UNCHANGED <<stationIdx, current_start, station_data>>
    /\ UNCHANGED <<chunkDays, start_date, end_date, stations_info, provider,
                   requests, mergeVars>>

NextMain == FetchChunk \/ FinishStation

(***************************************************************************)
(* Inputs                                                                  *)
(***************************************************************************)
D_1231 == <<"2", "0", "2", "0", "-", "1", "2", "-", "3", "1">>
D_0101 == <<"2", "0", "2", "1", "-", "0", "1", "-", "0", "1">>
D_0102 == <<"2", "0", "2", "1", "-", "0", "1", "-", "0", "2">>
H_0100 == <<"0", "1", "0", "0">>
H_1200 == <<"1", "2", "0", "0">>
H_2300 == <<"2", "3", "0", "0">>
H_2400 == <<"2", "4", "0", "0">>

Rec(date, hour, fields) ==
    (<<"Date">> :> date) @@ (<<"Hour">> :> hour) @@ fields
NoFields == [k \in {} |-> <<>>]
Field(value, qc) == [k \in {"Value", "Qc"} |-> IF k = "Value" THEN value ELSE qc]
Ok(records) == [kind |-> "ok", records |-> records]
Failure(kind) == [kind |-> kind, records |-> <<>>]

Roster1 == <<[id |-> 2, name |-> "FivePoints", lat |-> "36.3", lon |-> "-120.1"]>>
Roster2 ==
    Roster1 \o <<[id |-> 15, name |-> "Stratford", lat |-> "36.1", lon |-> "-119.8"]>>

MergeIdle ==
    /\ download_files = <<>>
    /\ challenge_files = <<>>
    /\ todo = <<>>
    /\ outDir = [n \in {} |-> <<>>]
    /\ filenames = {}
    /\ passes = 0
    /\ mpc = "idle"

MainStart(roster) ==
    /\ stations_info = roster
    /\ pc = "chunks"
    /\ stationIdx = 1
    /\ current_start = start_date
    /\ station_data = <<>>
    /\ requests = <<>>
    /\ files = [s \in {} |-> <<>>]
    /\ MergeIdle

\* the chunk loop for every date range within [0, MaxDay] and every chunk
\* size, valid or not
AirTmp == <<"Hly", "Air", "Tmp">>
OneRecord == Rec(D_0101, H_0100, AirTmp :> Field(<<"3", ".", "5">>, <<"Y">>))
InitChunk ==
    /\ chunkDays \in (0 - MaxInvalidChunkDays)..MaxChunkDays
    /\ start_date \in 0..MaxDay
    /\ end_date \in 0..MaxDay
    /\ provider = {Failure("http"), Ok(<<OneRecord>>)}
    /\ MainStart(Roster1)

SpecChunk == InitChunk /\ [][NextMain]_vars

\* two stations, two chunks each ([0,1] and [2,2]), every kind of failure
RecA == Rec(D_0101, H_0100, AirTmp :> Field(<<"3", ".", "5">>, <<"Y">>))
RecB == Rec(D_0101, H_1200, AirTmp :> Field(<<"M">>, <<"M">>))
InitMain ==
    /\ chunkDays = 2
    /\ start_date = 0
    /\ end_date = 2
    /\ provider = {Failure(k) : k \in FailureKinds}
                    \cup {Ok(<<>>), Ok(<<RecA>>), Ok(<<RecB>>), Ok(<<RecB, RecA>>)}
    /\ MainStart(Roster2)

SpecMain == InitMain /\ [][NextMain]_vars

(***************************************************************************)
(* Properties of the chunk loop                                            *)
(***************************************************************************)
WindowsOf(station_id) ==
    SelectSeq(requests, LAMBDA q : q.station = station_id)
StationFinished(k) == pc = "done" \/ stationIdx > k

\* C1: for start <= end and CHUNK_DAYS >= 1 the windows requested for a
\* station tile [start_date, end_date]: the first starts at start_date, each
\* next one starts the day after the previous one's end, none spans more
\* than CHUNK_DAYS days, no two share a day, and once the station is
\* finished the last one ends at end_date; for start > end nothing is
\* requested at all.
ChunkTiling ==
    /\ start_date > end_date => requests = <<>>
    /\ chunkDays >= 1 =>
        \A k \in 1..Len(station_ids) :
            LET w == WindowsOf(station_ids[k]) IN
            /\ \A i \in 1..Len(w) :
                /\ w[i].start <= w[i].end
                /\ w[i].end - w[i].start + 1 <= chunkDays
            /\ w # <<>> => w[1].start = start_date
            /\ \A i \in 1..(Len(w) - 1) : w[i + 1].start = w[i].end + 1
            /\ \A i, j \in 1..Len(w) : i < j => w[i].end < w[j].start
            /\ (StationFinished(k) /\ start_date <= end_date) =>
                   (w # <<>> /\ w[Len(w)].end = end_date)

\* a finished run of several windows whose last window was truncated
ChunkTilingWitness ==
    /\ pc = "done"
    /\ chunkDays >= 2
    /\ Len(requests) >= 2
    /\ LET q == requests[Len(requests)] IN q.end - q.start + 1 < chunkDays

\* C5: with an invalid chunk size (CHUNK_DAYS <= 0) no fetch is issued
InvalidChunkSizeIssuesNoFetch == chunkDays <= 0 => requests = <<>>

(***************************************************************************)
(* Properties of the aggregation                                           *)
(***************************************************************************)
IsSuccess(q) == q.resp.kind = "ok" /\ q.resp.records # <<>>
RECURSIVE CountRecords(_)
CountRecords(reqs) ==
    IF reqs = <<>> THEN 0
    ELSE Len(Head(reqs).resp.records) + CountRecords(Tail(reqs))

\* C3: a saved file has at most one row per (Date, Hour) slot
OneRowPerTimestamp ==
    \A s \in DOMAIN files :
        \A i, j \in 1..Len(files[s].rows) :
            i < j =>
                \/ files[s].rows[i][<<"Date">>] # files[s].rows[j][<<"Date">>]
                \/ files[s].rows[i][<<"Hour">>] # files[s].rows[j][<<"Hour">>]

\* C4: whatever the failures, every day of [start_date, end_date] is
\* requested exactly once for every finished station, a failed call
\* contributes no row, and every record of a call that succeeded is a row of
\* the station's file (a station without any record has no file).
FailureIsolation ==
    \A k \in 1..Len(station_ids) :
        StationFinished(k) =>
            LET sid == station_ids[k]
                w == WindowsOf(sid)
                good == SelectSeq(w, IsSuccess)
            IN  /\ \A d \in start_date..end_date :
                    Cardinality({i \in 1..Len(w) :
                                    w[i].start <= d /\ d <= w[i].end}) = 1
                /\ (good = <<>>) <=> (sid \notin DOMAIN files)
                /\ good # <<>> =>
                    /\ Len(files[sid].rows) = CountRecords(good)
                    /\ \A i \in 1..Len(good) :
                        \A j \in 1..Len(good[i].resp.records) :
                            LET r == good[i].resp.records[j] IN
                            \E row \in {files[sid].rows[n] :
                                           n \in 1..Len(files[sid].rows)} :
                                /\ row[<<"Date">>] = Some(r[<<"Date">>])
                                /\ row[<<"Hour">>] = Some(r[<<"Hour">>])
                                /\ row[<<"Stn Id">>] = Some(r[<<"Station">>])

\* the first station's first call failed, its second call succeeded and was
\* saved, and the second station was still requested
FailureIsolationWitness ==
    /\ pc = "done"
    /\ Len(requests) = 4
    /\ requests[1].resp.kind = "json"
    /\ IsSuccess(requests[2])
    /\ requests[3].resp.kind = "no_provider"
    /\ requests[3].station = station_ids[2]
    /\ station_ids[1] \in DOMAIN files

(***************************************************************************)
(* Records of every shape, one station, one chunk                          *)
(***************************************************************************)
ValuePool ==
    {None, Some(<<>>), Some(<<"M">>), Some(<<" ", "M", " ">>),
     Some(<<"-", "-", "-">>), Some(<<"#", "#", "#", "#">>), Some(<<" ">>),
     Some(<<"-", "-">>), Some(<<"a", "b">>), Some(<<"1", ".", "2", ".", "3">>),
     Some(<<"3", ".", "5">>), Some(<<" ", "3", ".", "5", " ">>),
     Some(<<"-", "2">>), Some(<<"1", "2">>), Some(<<"0">>)}
QcPool == {None, Some(<<>>), Some(<<"Y">>), Some(<<" ">>), Some(<<" ", "Y", " ">>)}

\* the keys under which the service delivers the items that are varied
ProviderKey(item) ==
    CASE item = <<"hly", "asce", "eto">> -> <<"Hly", "Asce", "Eto">>
      [] item = <<"hly", "air", "tmp">> -> <<"Hly", "Air", "Tmp">>
      [] item = <<"hly", "soil", "tmp">> -> <<"Hly", "Soil", "Tmp">>
VariedItems ==
    {<<"hly", "asce", "eto">>, <<"hly", "air", "tmp">>, <<"hly", "soil", "tmp">>}

\* a data_field with or without its 'Value' and 'Qc' subfields
FieldOpt(value, qc) ==
    [k \in (IF value # None THEN {"Value"} ELSE {})
              \cup (IF qc # None THEN {"Qc"} ELSE {}) |->
        IF k = "Value" THEN value[1] ELSE qc[1]]

D_slash == <<"0", "1", "/", "0", "1", "/", "2", "0", "2", "1">>
H_2500 == <<"2", "5", "0", "0">>
H_0000 == <<"0", "0", "0", "0">>
H_1230 == <<"1", "2", "3", "0">>
DatePool == {D_0101, D_slash, <<>>}
HourPool == {H_0100, H_2300, H_2400, H_2500, H_0000, H_1230, <<>>}

ValueRecords ==
    {Rec(D_0101, H_0100, ProviderKey(item) :> FieldOpt(v, q)) :
        item \in VariedItems, v \in ValuePool, q \in QcPool}
TimeRecords == {Rec(d, h, NoFields) : d \in DatePool, h \in HourPool}
RecordPool == ValueRecords \cup TimeRecords

InitRecords ==
    /\ chunkDays = 1
    /\ start_date = 0
    /\ end_date = 0
    /\ provider = {Failure("request"), Ok(<<>>)}
                    \cup {Ok(<<r>>) : r \in RecordPool}
                    \cup {Ok(<<r, RecA>>) : r \in RecordPool}
    /\ MainStart(Roster1)

SpecRecords == InitRecords /\ [][NextMain]_vars

(***************************************************************************)
(* Properties of the rows                                                  *)
(***************************************************************************)
\* The frames of station_data are, in order, the rows of the current
\* station's calls that delivered records.
CurrentGood ==
    SelectSeq(WindowsOf(station_ids[stationIdx]), IsSuccess)
RawField(record, item) ==
    IF ProviderKey(item) \in DOMAIN record
    THEN record[ProviderKey(item)]
    ELSE NoFields
RawValue(record, item) == Get(RawField(record, item), "Value")
RawQc(record, item) == Get(RawField(record, item), "Qc")
IsMissing(raw) == raw = None \/ Strip(raw[1]) \in Sentinels \cup {<<>>}
IsNumeric(raw) == raw # None /\ ParseFloat(raw[1]) # <<>>

\* every record of every delivered chunk has its row, at its place
RowsMatchRecords ==
    /\ Len(station_data) = Len(CurrentGood)
    /\ \A i \in 1..Len(station_data) :
           Len(station_data[i]) = Len(CurrentGood[i].resp.records)
SavedRowsMatchRecords ==
    \A s \in DOMAIN files :
        Len(files[s].rows) = CountRecords(SelectSeq(WindowsOf(s), IsSuccess))

\* a record whose hour code is one of "0100".."2400" and whose date is an
\* ISO date
Decodes(record) ==
    record[<<"Hour">>] \in HourCodes /\ record[<<"Date">>] \in {D_1231, D_0101, D_0102}
RECURSIVE CountDecodable(_)
CountDecodable(reqs) ==
    IF reqs = <<>> THEN 0
    ELSE Len(SelectSeq(Head(reqs).resp.records, Decodes))
             + CountDecodable(Tail(reqs))
MissingValueIsNaN ==
    /\ RowsMatchRecords
    /\ SavedRowsMatchRecords
    /\ \A i \in 1..Len(station_data) :
        \A j \in 1..Len(station_data[i]) :
            \A item \in VariedItems :
                LET raw == RawValue(CurrentGood[i].resp.records[j], item) IN
                (IsMissing(raw) \/ ~IsNumeric(raw)) =>
                    station_data[i][j][item] = NaN

\* a chunk of two records, the first with a value that is no number, saved
MissingValueIsNaNWitness ==
    /\ pc = "done"
    /\ Len(requests) = 1
    /\ Len(requests[1].resp.records) = 2
    /\ RawValue(requests[1].resp.records[1], <<"hly", "soil", "tmp">>)
           = Some(<<"a", "b">>)
    /\ \E s \in DOMAIN files : Len(files[s].rows) = 2

\* C8: the QC cell is the trimmed 'Qc' subfield, "" when it is absent,
\* whatever the value; the value cell is a number exactly when the raw value
\* is one; every row has a value cell and a QC cell for all ten items.
QcIndependentOfValue ==
    /\ \A i \in 1..Len(station_data) :
        \A j \in 1..Len(station_data[i]) :
            LET r == CurrentGood[i].resp.records[j]
                row == station_data[i][j]
            IN  /\ Items \cup {QcCol(item) : item \in Items} \subseteq DOMAIN row
                /\ \A item \in VariedItems :
                    LET raw == RawValue(r, item)
                        qc == RawQc(r, item)
                    IN  /\ row[QcCol(item)] = IF qc = None THEN <<>> ELSE Strip(qc[1])
                        /\ (row[item] # NaN) <=> (~IsMissing(raw) /\ IsNumeric(raw))
                        /\ (raw = Some(<<"M">>) /\ qc = Some(<<"Y">>)) =>
                               (row[item] = NaN /\ row[QcCol(item)] = <<"Y">>)
                        /\ (raw = Some(<<"3", ".", "5">>) /\ qc = None) =>
                               (row[item] = Float(3500) /\ row[QcCol(item)] = <<>>)
    /\ \A s \in DOMAIN files :
        \A n \in 1..Len(files[s].rows) :
            {name2name(c) : c \in Items \cup {QcCol(item) : item \in Items}}
                \subseteq DOMAIN files[s].rows[n]

\* a row with value "M" and QC "Y", saved with NaN and "Y"
QcIndependentOfValueWitness ==
    /\ pc = "done"
    /\ Len(requests) = 1
    /\ Len(requests[1].resp.records) = 1
    /\ RawValue(requests[1].resp.records[1], <<"hly", "asce", "eto">>) = Some(<<"M">>)
    /\ RawQc(requests[1].resp.records[1], <<"hly", "asce", "eto">>) = Some(<<"Y">>)
    /\ \E s \in DOMAIN files :
        /\ files[s].rows[1][<<"ETo (mm)">>] = NaN
        /\ files[s].rows[1][<<"eto", "qc">>] = <<"Y">>

(***************************************************************************)
(* Records of several dates and hours arriving in any order                *)
(***************************************************************************)
D_0201 == <<"2", "0", "2", "1", "-", "0", "2", "-", "0", "1">>
SlotPool ==
    {Rec(D_1231, H_2400, NoFields), Rec(D_0101, H_0100, NoFields),
     Rec(D_0101, H_2300, NoFields), Rec(D_0101, H_2400, NoFields),
     Rec(D_0102, H_0100, NoFields), Rec(D_0201, H_1200, NoFields)}

InitSort ==
    /\ chunkDays = 2
    /\ start_date = 0
    /\ end_date = 2
    /\ provider = {Failure("http"), Ok(<<>>)}
                    \cup {Ok(<<a>>) : a \in SlotPool}
                    \cup {Ok(<<p[1], p[2]>>) :
                             p \in {q \in SlotPool \X SlotPool : q[1] # q[2]}}
    /\ MainStart(Roster1)

SpecSort == InitSort /\ [][NextMain]_vars

\* the proleptic Gregorian ordinal of an ISO date string "YYYY-MM-DD"
IsLeap(y) == (y % 4 = 0 /\ y % 100 # 0) \/ y % 400 = 0
DaysInMonth(y, m) ==
    CASE m = 2 -> IF IsLeap(y) THEN 29 ELSE 28
      [] m \in {4, 6, 9, 11} -> 30
      [] OTHER -> 31
RECURSIVE DaysBeforeMonth(_, _)
DaysBeforeMonth(y, m) ==
    IF m <= 1 THEN 0 ELSE DaysBeforeMonth(y, m - 1) + DaysInMonth(y, m - 1)
DaysBeforeYear(y) ==
    LET p == y - 1 IN (365 * p + p \div 4 - p \div 100) + p \div 400
Ordinal(date) ==
    LET y == DigitsToInt(SubSeq(date, 1, 4))
        m == DigitsToInt(SubSeq(date, 6, 7))
        d == DigitsToInt(SubSeq(date, 9, 10))
    IN  DaysBeforeYear(y) + DaysBeforeMonth(y, m) + d

\* the hour a (Date, Hour) pair denotes, counted from an epoch: "HH00" is
\* HH:00 on the date, "2400" is 00:00 of the next day
TimestampOf(row) ==
    24 * Ordinal(row[<<"Date">>][1])
        + DigitsToInt(SubSeq(row[<<"Hour">>][1], 1, 2))

\* C10: the rows of a saved file are in the order of the hours they denote,
\* in whatever order the chunks and records arrived, and they are the rows
\* of all the records delivered.
ChronologicalOrder ==
    /\ SavedRowsMatchRecords
    /\ \A s \in DOMAIN files :
        \A i, j \in 1..Len(files[s].rows) :
            i < j => TimestampOf(files[s].rows[i]) <= TimestampOf(files[s].rows[j])

\* four rows saved, of which the latest (2021-02-01) arrived first and
\* "2400" of 2021-01-01 arrived after "0100" of 2021-01-02
ChronologicalOrderWitness ==
    /\ pc = "done"
    /\ Len(requests) = 2
    /\ requests[1].resp.records = <<Rec(D_0201, H_1200, NoFields) @@ (<<"Station">> :> IntToStr(2)),
             Rec(D_0102, H_0100, NoFields) @@ (<<"Station">> :> IntToStr(2))>>
    /\ Len(requests[2].resp.records) = 2
    /\ requests[2].resp.records[1][<<"Hour">>] = H_2400
    /\ requests[2].resp.records[1][<<"Date">>] = D_0101
    /\ \E s \in DOMAIN files : Len(files[s].rows) = 4

(***************************************************************************)
(* merge_data.py: remove_duplicate                                         *)
(*                                                                         *)
(* A basename is split at '-' into segments, a segment is a str; the       *)
(* extension counts as one character, ".csv".  A file is                   *)
(* [dir, name, df]: the directory it was globbed from, its basename and    *)
(* its content.                                                            *)
(***************************************************************************)
Lower(c) == CASE c = "A" -> "a" [] c = "B" -> "b" [] c = "S" -> "s" [] OTHER -> c

\* os.path.basename(file).split('-')[0].strip()
SidOf(name) == Strip(name[1])

\* os.path.basename(file).replace("_", "").lower()
NormalizeName(name) ==
    [i \in 1..Len(name) |->
        LET kept == SelectSeq(name[i], LAMBDA c : c # "_")
        IN  [j \in 1..Len(kept) |-> Lower(kept[j])]]

challenge_sids == {SidOf(challenge_files[i].name) : i \in 1..Len(challenge_files)}

\* a download file compared with the challenge files by its whole basename
IsDuplicateByName(file) ==
    file.name \in {challenge_files[i].name : i \in 1..Len(challenge_files)}

\* os.path.basename(file).split('-')[0].strip() in challenge_sids
IsDuplicate(file) == SidOf(file.name) \in challenge_sids

\* shutil.copy2(file, target): the entry of that name is created or replaced
Copy2(dir, name, file) ==
    [n \in DOMAIN dir \cup {name} |-> IF n = name THEN file ELSE dir[n]]

\* one iteration of "for file in (download_files + challenge_files)"
CopyFile ==
    /\ mpc = "copy"
    /\ todo # <<>>
    /\ LET file == Head(todo) IN
        outDir' =
            IF \E i \in 1..Len(challenge_files) : challenge_files[i] = file
            THEN Copy2(outDir, file.name, file)
            ELSE IF IsDuplicate(file)
                 THEN outDir
                 ELSE Copy2(outDir, NormalizeName(file.name), file)
    /\ todo' = Tail(todo)
    /\ UNCHANGED <<mainVars, download_files, challenge_files, filenames,
                   passes, mpc>>

(***************************************************************************)
(* merge_data.py: process_dataframe                                        *)
(***************************************************************************)
ColSet(df) == {df.columns[i] : i \in 1..Len(df.columns)}

\* pd.read_csv: a column of digit strings becomes integers and loses its
\* leading zeros ("0100" is read as 100); modelled for the hour column
HourColumns == {<<"Hour">>, <<"Hour (PST)">>}
AllDigits(s) == s # <<>> /\ \A i \in 1..Len(s) : IsDigit(s[i])
read_csv(df) ==
    LET numeric(c) ==
            \A j \in 1..Len(df.rows) :
                df.rows[j][c] # None /\ AllDigits(df.rows[j][c][1])
    IN  [columns |-> df.columns,
         rows |-> [j \in 1..Len(df.rows) |->
                      [c \in ColSet(df) |->
                          IF c \in HourColumns /\ numeric(c)
                          THEN Some(IntToStr(ParseInt(df.rows[j][c][1])))
                          ELSE df.rows[j][c]]]]

\* df.rename(columns=new) for a renaming new of every column of df
RenameColumns(df, new) ==
    LET old(n) == CHOOSE c \in ColSet(df) : new[c] = n
        cols == [i \in 1..Len(df.columns) |-> new[df.columns[i]]]
    IN  [columns |-> cols,
         rows |-> [j \in 1..Len(df.rows) |->
                      [n \in {cols[i] : i \in 1..Len(cols)} |->
                          df.rows[j][old(n)]]]]

\* df.drop(columns=...) and df[names] for names among the columns
DropColumns(df, dropped) ==
    [columns |-> SelectSeq(df.columns, LAMBDA c : c \notin dropped),
     rows |-> [j \in 1..Len(df.rows) |->
                  [c \in ColSet(df) \ dropped |-> df.rows[j][c]]]]
SelectColumns(df, names) ==
    [columns |-> names,
     rows |-> [j \in 1..Len(df.rows) |->
                  [c \in {names[i] : i \in 1..Len(names)} |-> df.rows[j][c]]]]

HourRename(c) == IF c = <<"Hour">> THEN <<"Hour (PST)">> ELSE c
QcRename(c) ==
    CASE c = <<"qc">> -> <<"eto", "qc">>
      [] c = <<"qc.1">> -> <<"precip", "qc">>
      [] c = <<"qc.2">> -> <<"solrad", "qc">>
      [] c = <<"qc.3">> -> <<"vappres", "qc">>
      [] c = <<"qc.4">> -> <<"airtmp", "qc">>
      [] c = <<"qc.5">> -> <<"relhum", "qc">>
      [] c = <<"qc.6">> -> <<"dewpnt", "qc">>
      [] c = <<"qc.7">> -> <<"windspd", "qc">>
      [] c = <<"qc.8">> -> <<"winddir", "qc">>
      [] c = <<"qc.9">> -> <<"soiltmp", "qc">>
      [] OTHER -> c

\* pd.to_datetime(s, format='%m/%d/%Y').dt.strftime('%Y-%m-%d') on one
\* cell: <<>> when the string is no month/day/year date (ValueError)
RECURSIVE SplitAt(_, _)
SplitAt(s, sep) ==
    IF \A i \in 1..Len(s) : s[i] # sep THEN <<s>>
    ELSE LET k == CHOOSE i \in 1..Len(s) :
                      s[i] = sep /\ \A h \in 1..(i - 1) : s[h] # sep
         IN  <<SubSeq(s, 1, k - 1)>> \o SplitAt(SubSeq(s, k + 1, Len(s)), sep)
Pad2(s) == IF Len(s) = 1 THEN <<"0">> \o s ELSE s
ConvertDate(s) ==
    LET p == SplitAt(s, "/") IN
    IF /\ Len(p) = 3
       /\ AllDigits(p[1]) /\ Len(p[1]) <= 2 /\ DigitsToInt(p[1]) \in 1..12
       /\ AllDigits(p[2]) /\ Len(p[2]) <= 2 /\ DigitsToInt(p[2]) \in 1..31
       /\ AllDigits(p[3]) /\ Len(p[3]) = 4
    THEN <<p[3] \o <<"-">> \o Pad2(p[1]) \o <<"-">> \o Pad2(p[2])>>
    ELSE <<>>

reorder_names ==
    << <<"Stn Id">>, <<"Stn Name">>, <<"Date">>, <<"Hour (PST)">>,
       <<"ETo (mm)">>, <<"eto", "qc">>, <<"Precip (mm)">>, <<"precip", "qc">>,
       <<"Sol Rad (W/sq.m)">>, <<"solrad", "qc">>,
       <<"Vap Pres (kPa)">>, <<"vappres", "qc">>,
       <<"Air Temp (C)">>, <<"airtmp", "qc">>,
       <<"Rel Hum (%)">>, <<"relhum", "qc">>,
       <<"Dew Point (C)">>, <<"dewpnt", "qc">>,
       <<"Wind Speed (m/s)">>, <<"windspd", "qc">>,
       <<"Wind Dir (0-360)">>, <<"winddir", "qc">>,
       <<"Soil Temp (C)">>, <<"soiltmp", "qc">> >>

Raised == [ok |-> FALSE]
Returned(df) == [ok |-> TRUE, df |-> df]

\* the body of "if 'CIMIS Region' in df.columns"
ChallengeToCanonical(df) ==
    IF {<<"CIMIS Region">>, <<"Jul">>} \subseteq ColSet(df)
       /\ <<"Date">> \in ColSet(df)
       /\ \A j \in 1..Len(df.rows) :
              df.rows[j][<<"Date">>] # None
                  /\ ConvertDate(df.rows[j][<<"Date">>][1]) # <<>>
    THEN LET d == RenameColumns(
                      DropColumns(df, {<<"CIMIS Region">>, <<"Jul">>}),
                      [c \in ColSet(df) \ {<<"CIMIS Region">>, <<"Jul">>} |->
                          QcRename(c)])
         IN  Returned(
                 [columns |-> d.columns,
                  rows |-> [j \in 1..Len(d.rows) |->
                               [c \in ColSet(d) |->
                                   IF c = <<"Date">>
                                   THEN ConvertDate(d.rows[j][c][1])
                                   ELSE d.rows[j][c]]]])
    ELSE Raised

\* the body of the loop without the final "df = df[reorder_names]"
process_unordered(df0) ==
    LET df1 == read_csv(df0)
        df2 == IF <<"Hour">> \in ColSet(df1)
               THEN RenameColumns(df1, [c \in ColSet(df1) |-> HourRename(c)])
               ELSE df1
    IN  IF <<"CIMIS Region">> \in ColSet(df2)
        THEN ChallengeToCanonical(df2) ELSE Returned(df2)

\* the body of "for file in filenames": the frame that is written back, or
\* the exception (KeyError, ValueError) that ends the run
process_dataframe(df0) ==
    LET df1 == read_csv(df0)
        df2 == IF <<"Hour">> \in ColSet(df1)
               THEN RenameColumns(df1, [c \in ColSet(df1) |-> HourRename(c)])
               ELSE df1
        df3 == IF <<"CIMIS Region">> \in ColSet(df2)
               THEN ChallengeToCanonical(df2) ELSE Returned(df2)
    IN  IF ~df3.ok THEN Raised
        ELSE IF \E i \in 1..Len(reorder_names) :
                    reorder_names[i] \notin ColSet(df3.df)
             THEN Raised
             ELSE Returned(SelectColumns(df3.df, reorder_names))

\* merge_data.main after remove_duplicate:
\* filenames = glob.glob(os.path.join(OUT_DIR, "**.csv"))
StartProcess ==
    /\ mpc = "copy"
    /\ todo = <<>>
    /\ filenames' = DOMAIN outDir
    /\ passes' = passes + 1
    /\ mpc' = "process"
    /\ UNCHANGED <<mainVars, download_files, challenge_files, todo, outDir>>

\* one iteration of "for file in filenames", in the order glob gave
ProcessFile ==
    /\ mpc = "process"
    /\ \E file \in filenames :
        LET r == process_dataframe(outDir[file].df) IN
        IF r.ok
        THEN /\ outDir' = [outDir EXCEPT ![file].df = r.df]
             /\ filenames' = filenames \ {file}
             /\ mpc' = mpc
        ELSE /\ mpc' = "error"
             /\ UNCHANGED <<outDir, filenames>>
    /\ UNCHANGED <<mainVars, download_files, challenge_files, todo, passes>>

FinishProcess ==
    /\ mpc = "process"
    /\ filenames = {}
    /\ mpc' = "done"
    /\ UNCHANGED <<mainVars, download_files, challenge_files, todo, outDir,
                   filenames, passes>>

\* process_dataframe called once more on the files of OUT_DIR
ProcessAgain ==
    /\ mpc = "done"
    /\ passes < MaxPasses
    /\ filenames' = DOMAIN outDir
    /\ passes' = passes + 1
    /\ mpc' = "process"
    /\ UNCHANGED <<mainVars, download_files, challenge_files, todo, outDir>>

NextMerge ==
    CopyFile \/ StartProcess \/ ProcessFile \/ FinishProcess \/ ProcessAgain

(***************************************************************************)
(* Inputs of the merge                                                     *)
(***************************************************************************)
\* utils.others.new_dir(OUT_DIR): the output directory, created empty
new_dir == [n \in {} |-> <<>>]

\* a file of Data/cimis_hourly_data_hui, as station_data.main writes it
DownloadFrame(station) ==
    Aggregate(<<fetch_cimis_data(station,
                                 ProviderReply(Ok(<<RecB, RecA>>), station))>>,
              Roster2)

\* a file of Data/cimis_stations_data_challenge: the layout that
\* process_dataframe expects of it
ChallengeColumns ==
    << <<"Stn Id">>, <<"Stn Name">>, <<"CIMIS Region">>, <<"Date">>,
       <<"Hour (PST)">>, <<"Jul">>,
       <<"ETo (mm)">>, <<"qc">>, <<"Precip (mm)">>, <<"qc.1">>,
       <<"Sol Rad (W/sq.m)">>, <<"qc.2">>, <<"Vap Pres (kPa)">>, <<"qc.3">>,
       <<"Air Temp (C)">>, <<"qc.4">>, <<"Rel Hum (%)">>, <<"qc.5">>,
       <<"Dew Point (C)">>, <<"qc.6">>, <<"Wind Speed (m/s)">>, <<"qc.7">>,
       <<"Wind Dir (0-360)">>, <<"qc.8">>, <<"Soil Temp (C)">>, <<"qc.9">> >>
ChallengeRow(station, date, hour) ==
    [c \in {ChallengeColumns[i] : i \in 1..Len(ChallengeColumns)} |->
        CASE c = <<"Stn Id">> -> Some(IntToStr(station))
          [] c = <<"Stn Name">> -> "Challenge"
          [] c = <<"CIMIS Region">> -> "San Joaquin Valley"
          [] c = <<"Date">> -> Some(date)
          [] c = <<"Hour (PST)">> -> Some(hour)
          [] c = <<"Jul">> -> "1"
          [] c[1] \in {"qc", "qc.1", "qc.2", "qc.3", "qc.4", "qc.5", "qc.6",
                       "qc.7", "qc.8", "qc.9"} -> <<"Y">>
          [] OTHER -> Float(1500)]
ChallengeFrame(station) ==
    [columns |-> ChallengeColumns,
     rows |-> <<ChallengeRow(station, <<"1", "/", "2", "/", "2", "0", "2", "1">>,
                             <<"1", "0", "0">>),
                ChallengeRow(station,
                             <<"1", "2", "/", "3", "1", "/", "2", "0", "2", "0">>,
                             <<"2", "4", "0", "0">>)>>]

File(dir, station, rest, df) ==
    [dir |-> dir, station |-> station,
     name |-> <<IntToStr(station), rest>>, df |-> df]

\* challenge: "2-AB.csv", "15-S.csv"
ChallengePool ==
    {File("challenge", 2, <<"A", "B", ".csv">>, ChallengeFrame(2)),
     File("challenge", 15, <<"S", ".csv">>, ChallengeFrame(15))}
\* download: "2-a_b.csv", "7-a_B.csv", "1-s.csv"
DownloadPool ==
    {File("download", 2, <<"a", "_", "b", ".csv">>, DownloadFrame(2)),
     File("download", 7, <<"a", "_", "B", ".csv">>, DownloadFrame(7)),
     File("download", 1, <<"s", ".csv">>, DownloadFrame(1))}

\* the lists glob.glob can return for a directory holding the files of S
Listings(S) ==
    {f \in [1..Cardinality(S) -> S] : \A i, j \in 1..Cardinality(S) :
                                           f[i] = f[j] => i = j}

MainIdle ==
    /\ chunkDays = 1
    /\ start_date = 0
    /\ end_date = 0
    /\ stations_info = Roster2
    /\ provider = {}
    /\ pc = "done"
    /\ stationIdx = 1
    /\ current_start = 0
    /\ station_data = <<>>
    /\ requests = <<>>
    /\ files = [s \in {} |-> <<>>]

InitMerge ==
    /\ MainIdle
    /\ \E A \in SUBSET ChallengePool, B \in SUBSET DownloadPool :
        /\ download_files \in Listings(B)
        /\ challenge_files \in Listings(A)
    /\ todo = download_files \o challenge_files
    /\ outDir = new_dir
    /\ filenames = {}
    /\ passes = 0
    /\ mpc = "copy"

SpecMerge == InitMerge /\ [][NextMerge]_vars

(***************************************************************************)
(* Properties of the merge                                                 *)
(***************************************************************************)
StationsOf(listing) == {listing[i].station : i \in 1..Len(listing)}
Copied == {outDir[n] : n \in DOMAIN outDir}

\* C2: once remove_duplicate has gone through its list, a station that is
\* in both directories has its challenge file in OUT_DIR and no file that
\* came from the download directory; a station that is only in the download
\* directory has its download file in OUT_DIR.
ChallengeTakesPrecedence ==
    (mpc # "idle" /\ todo = <<>>) =>
        /\ \A st \in StationsOf(challenge_files) \cap StationsOf(download_files) :
            /\ \E f \in Copied : f.dir = "challenge" /\ f.station = st
            /\ \A f \in Copied : f.station = st => f.dir = "challenge"
        /\ \A i \in 1..Len(download_files) :
            download_files[i].station \notin StationsOf(challenge_files) =>
                \E f \in Copied :
                    /\ f.dir = "download"
                    /\ f.name = download_files[i].name
        /\ \A i \in 1..Len(challenge_files) :
            mpc = "copy" => challenge_files[i].name \in DOMAIN outDir
                              /\ outDir[challenge_files[i].name] = challenge_files[i]

\* station 2 is in both directories, stations 7 and 1 only in the download
\* directory, station 15 only in the challenge directory, and the list has
\* been gone through
ChallengeTakesPrecedenceWitness ==
    /\ mpc = "copy"
    /\ todo = <<>>
    /\ Len(challenge_files) = 2
    /\ Len(download_files) = 3
    /\ Cardinality(DOMAIN outDir) = 4

\* station id, station name, date, hour, then the (value, QC) pairs in the
\* order of DATA_ITEMS
CanonicalColumns ==
    LET pairs == DataQcCols(DATA_ITEMS) IN
    << <<"Stn Id">>, <<"Stn Name">>, <<"Date">>, <<"Hour (PST)">> >>
        \o [i \in 1..Len(pairs) |-> name2name(pairs[i])]
CanonicalSchemaNow ==
    /\ mpc # "error"
    /\ mpc = "done" =>
        \A f \in Copied :
            /\ f.df.columns = CanonicalColumns
            /\ \A j \in 1..Len(f.df.rows) :
                   DOMAIN f.df.rows[j]
                       = {CanonicalColumns[i] : i \in 1..Len(CanonicalColumns)}
\* C9: after process_dataframe every file of OUT_DIR, from either
\* directory, has exactly the canonical columns in the canonical order, and
\* a further call of process_dataframe changes no file.
CanonicalSchema ==
    /\ []CanonicalSchemaNow
    /\ [][passes >= 2 => outDir' = outDir]_vars

\* a challenge file and a download file, both processed twice
CanonicalSchemaWitness ==
    /\ mpc = "done"
    /\ passes = 2
    /\ \E f \in Copied : f.dir = "challenge"
    /\ \E f \in Copied : f.dir = "download"

====
